---- MODULE Spec2Model ----
(***************************************************************************)
(* HIGs-Compiler: discovery of the article hierarchy (crawler, classifier, *)
(* assembler) and the PDF pipeline (renderer, index builder, merger).      *)
(*                                                                         *)
(* The specifications share the variables:                                 *)
(*   Spec      the navigation crawler filling discovered_links             *)
(*   SpecPass  the scroll passes of the sidebar crawl, step by step        *)
(*   SpecTree  the classification loop and the assembly of the tree        *)
(*   SpecTreeNested  the same, on links to section roots and sub-sections  *)
(*   SpecPdf   generate_pdfs, create_index_html and merge_pdfs on a tree   *)
(***************************************************************************)
EXTENDS Integers, Sequences, FiniteSets, TLC

VARIABLES
    pc,                             \* position of the run
    discovered_links,               \* url_discovery.py:62
    seen_hrefs,                     \* url_discovery.py:63
    sighted,                        \* the link the collecting loop is looking at (<< >>: none yet)
    landing,                        \* per-section crawl: <<t, s>>, the landing page of top-level
                                    \* section t (s = 0) or of its s-th sub-section link
    visited,                        \* per-section crawl: the landing pages page.goto was called on
    pass_no,                        \* crawl_nav: the run_pass call in progress (1, 2, 3)
    steps,                          \* run_pass: iterations of "for _ in range(400)" begun
    stable_steps,                   \* url_discovery.py:112
    last_count,                     \* url_discovery.py:111
    quiet,                          \* run_pass: the latest steps in a row that found no new link
    idx,                            \* position of the classification loop
    seen_urls_for_classification,   \* url_discovery.py:393
    sections_map,                   \* url_discovery.py:61 (insertion-ordered)
    page_ctx,                       \* context text of the page the browser shows during the
                                    \* classification
    goto_raised,                    \* whether the last page.goto of the loop raised
    classified,                     \* the iterations that reached "# Load page quickly for
                                    \* classification": url, parts, ctx_text, and top_name
                                    \* and sub_name at the placement
    sections,                       \* the tree
    ridx,                           \* position of the render loop
    generated_files_map,            \* pdf_generator.py:105
    hash_to_file,                   \* pdf_generator.py:106
    files,                          \* file system: path -> page count
    failed_log,                     \* urls printed by "Failed {url}"
    renders,                        \* page.pdf calls that wrote a file: <<url, hash, path>>
    merged,                         \* paths appended to the PdfMerger, in order
    outline,                        \* outline items added to the PdfMerger
    merge_result,                   \* value returned by merge_pdfs
    navigated,                      \* the page.goto calls of the classifier and the renderer
    site,                           \* the site: url -> hash of the page's main content
    md_idx,                         \* export_markdown: position in articles
    url_seen,                       \* markdown_exporter.py:160
    manifest,                       \* markdown_exporter.py:161
    md_files,                       \* the .md files on disk: path -> URL of the article last written
    manifest_json,                  \* manifest.json: << >> until written, then << items >>
    summary                         \* SUMMARY.md: << >> until written, then << lines >>

vars == << pc, discovered_links, seen_hrefs, sighted, landing, visited, pass_no, steps,
           stable_steps, last_count, quiet, idx, seen_urls_for_classification,
           sections_map, page_ctx, goto_raised, classified, sections, ridx, generated_files_map,
           hash_to_file, files, failed_log, renders, merged, outline, merge_result,
           site, navigated, md_idx, url_seen, manifest, md_files, manifest_json, summary >>

passVars  == << pass_no, steps, stable_steps, last_count, quiet >>
crawlVars == << discovered_links, seen_hrefs, sighted, landing, visited, passVars >>
treeVars  == << idx, seen_urls_for_classification, sections_map, page_ctx, goto_raised,
               classified >>
pdfVars   == << ridx, generated_files_map, hash_to_file, files, failed_log, renders >>
mergeVars == << merged, outline, merge_result >>
mdVars    == << md_idx, url_seen, manifest, md_files, manifest_json, summary >>

(***************************************************************************)
(* Bounds of the model.                                                    *)
(***************************************************************************)
MaxLinks == 3
MaxArticles == 3

None == "<None>"
EmptyMap == [x \in {} |-> None]

Min(S) == CHOOSE x \in S : \A y \in S : x <= y

Range(s) == { s[i] : i \in 1..Len(s) }

RECURSIVE SumSeq(_)
SumSeq(s) == IF s = << >> THEN 0 ELSE Head(s) + SumSeq(Tail(s))

RECURSIVE Concat(_)
Concat(ss) == IF ss = << >> THEN << >> ELSE Head(ss) \o Concat(Tail(ss))

(***************************************************************************)
(* Static tables of get_article_urls.                                      *)
(***************************************************************************)
base_url == "https://developer.apple.com"

TOP_LEVEL_ORDER ==
    << "Getting Started", "Foundations", "Patterns", "Components", "Inputs",
       "Technologies" >>

COMPONENTS_ORDER ==
    << "Content", "Layout and Organization", "Menus and Actions",
       "Navigation and Search", "Presentation", "Selection and Input",
       "Status", "System Experiences" >>

slug_to_top ==
    << <<"getting-started", "Getting Started">>, <<"foundations", "Foundations">>,
       <<"patterns", "Patterns">>, <<"components", "Components">>,
       <<"inputs", "Inputs">>, <<"technologies", "Technologies">> >>

comp_slug_to_name ==
    << <<"content", "Content">>,
       <<"layout-and-organization", "Layout and Organization">>,
       <<"menus-and-actions", "Menus and Actions">>,
       <<"navigation-and-search", "Navigation and Search">>,
       <<"presentation", "Presentation">>,
       <<"selection-and-input", "Selection and Input">>,
       <<"status", "Status">>,
       <<"system-experiences", "System Experiences">> >>

getting_started_slugs ==
    { "designing-for-ios", "designing-for-ipados", "designing-for-macos",
      "designing-for-tvos", "designing-for-visionos", "designing-for-watchos",
      "designing-for-games" }

foundations_slugs ==
    { "accessibility", "app-icons", "branding", "color", "dark-mode", "icons",
      "images", "immersive-experiences", "inclusion", "layout", "materials",
      "motion", "privacy", "right-to-left", "sf-symbols", "spatial-layout",
      "typography", "writing" }

patterns_slugs ==
    { "charting-data", "collaboration-and-sharing", "drag-and-drop",
      "entering-data", "feedback", "file-management", "going-full-screen",
      "launching", "live-viewing-apps", "loading", "managing-accounts",
      "managing-notifications", "modality", "multitasking", "offering-help",
      "onboarding", "playing-audio", "playing-haptics", "playing-video",
      "printing", "ratings-and-reviews", "searching", "settings",
      "undo-and-redo", "workouts" }

inputs_slugs ==
    { "action-button", "apple-pencil-and-scribble", "camera-control",
      "digital-crown", "eyes", "focus-and-selection", "game-controls",
      "gestures", "gyroscope-and-accelerometer", "gyro-and-accelerometer",
      "keyboards", "nearby-interactions", "pointing-devices", "remotes" }

technologies_slugs ==
    { "airplay", "always-on", "app-clips", "apple-pay", "augmented-reality",
      "carekit", "carplay", "game-center", "generative-ai", "healthkit",
      "homekit", "icloud", "id-verifier", "imessage-apps-and-stickers",
      "in-app-purchase", "live-photos", "mac-catalyst", "machine-learning",
      "maps", "nfc", "photo-editing", "researchkit", "shareplay", "shazamkit",
      "sign-in-with-apple", "siri", "tap-to-pay-on-iphone", "voiceover",
      "wallet" }

components_articles_by_sub ==
    << <<"Content", {"charts", "image-views", "text-views", "web-views"}>>,
       <<"Layout and Organization",
         {"boxes", "collections", "column-views", "disclosure-controls",
          "labels", "lists-and-tables", "lockups", "outline-views",
          "split-views", "tab-views"}>>,
       <<"Menus and Actions",
         {"activity-views", "buttons", "context-menus", "dock-menus",
          "edit-menus", "home-screen-quick-actions", "menus", "ornaments",
          "pop-up-buttons", "pull-down-buttons", "the-menu-bar", "toolbars"}>>,
       <<"Navigation and Search",
         {"path-controls", "search-fields", "sidebars", "tab-bars",
          "token-fields"}>>,
       <<"Presentation",
         {"action-sheets", "alerts", "page-controls", "panels", "popovers",
          "scroll-views", "sheets", "windows"}>>,
       <<"Selection and Input",
         {"color-wells", "combo-boxes", "digit-entry-views", "image-wells",
          "pickers", "segmented-controls", "sliders", "steppers",
          "text-fields", "toggles", "virtual-keyboards"}>>,
       <<"Status",
         {"activity-rings", "gauges", "progress-indicators",
          "rating-indicators"}>>,
       <<"System Experiences",
         {"app-shortcuts", "complications", "controls", "live-activities",
          "notifications", "status-bars", "top-shelf", "watch-faces",
          "widgets"}>> >>

\* dict lookups on the insertion-ordered tables above
DictKeys(d) == { d[i][1] : i \in 1..Len(d) }
DictGet(d, k) == d[CHOOSE i \in 1..Len(d) : d[i][1] = k][2]

(***************************************************************************)
(* Hrefs.  Every href the crawler reads matches the selector               *)
(* a[href^="/design/human-interface-guidelines/"], so an href is the       *)
(* sequence of its path segments after that prefix (a query string is part *)
(* of the text of the segment it follows, as str.split("/") leaves it),    *)
(* whether it ends in "/", and its fragment ("" when it has none).         *)
(***************************************************************************)
H(segs, slash, frag) == [segs |-> segs, slash |-> slash, frag |-> frag]

Hrefs ==
    { H(<<"color">>, FALSE, ""), H(<<"color">>, TRUE, ""),
      H(<<"color?q">>, FALSE, ""), H(<<"color">>, FALSE, "f"),
      H(<<"buttons">>, FALSE, ""),
      H(<<"components", "content", "charts">>, FALSE, ""),
      H(<<"foundations">>, FALSE, ""),
      H(<<"components", "status">>, FALSE, ""),
      H(<<"mystery">>, FALSE, "") }

\* hrefs of section roots and of pages under /components/<sub-section>/
NestedHrefs ==
    { H(<<"foundations">>, FALSE, ""), H(<<"foundations?q">>, FALSE, ""),
      H(<<"components">>, FALSE, ""),
      H(<<"components", "status">>, FALSE, ""),
      H(<<"components", "content", "charts">>, FALSE, ""),
      H(<<"components", "new-controls", "dials">>, FALSE, ""),
      H(<<"components", "extras", "badges">>, FALSE, "") }

\* the hrefs the crawler specification lets the navigation surfaces show
CrawlHrefs ==
    { H(<<"color">>, FALSE, ""), H(<<"color">>, TRUE, ""),
      H(<<"color">>, FALSE, "f"), H(<<"buttons">>, FALSE, "") }

Titles == {"t1", "t2"}

\* href.split("#")[0]
StripFragment(h) == [h EXCEPT !.frag = ""]

\* urljoin(base_url, href) for an absolute path
UrlJoin(base, h) == [host |-> base, segs |-> h.segs, slash |-> h.slash, frag |-> h.frag]

\* [p for p in href.split("/") if p], href without fragment
PathParts(h) == <<"design", "human-interface-guidelines">> \o h.segs

Link(h, t) == [href |-> h, title |-> t]

(***************************************************************************)
(* Navigation crawler.                                                     *)
(***************************************************************************)
\* run_pass, the body of "for link in links" for one rendered link
RunPassCollectTitleWins(links, seen, h, t) ==
    IF h \notin seen
    THEN [links |-> Append(links, Link(h, t)), seen |-> seen \cup {h}]
    ELSE [links |-> [i \in 1..Len(links) |->
                        IF links[i].href = h THEN Link(h, t) ELSE links[i]],
          seen |-> seen]

RunPassCollect(links, seen, h, t) ==
    IF h \notin seen
    THEN [links |-> Append(links, Link(h, t)), seen |-> seen \cup {h}]
    ELSE [links |-> links, seen |-> seen]

\* add_if_new, the body of "for it in items" for one item
AddIfNew(links, seen, it) ==
    LET href == StripFragment(it.href)
    IN  IF href \notin seen
        THEN [links |-> Append(links, it), seen |-> seen \cup {href}]
        ELSE [links |-> links, seen |-> seen]

\* the link is already recorded, or there is room for one more
Room(h) == h \in seen_hrefs \/ Len(discovered_links) < MaxLinks

\* crawl_nav: one link of the sidebar seen in a scroll step of a pass
SidebarSighting ==
    /\ pc = "sidebar"
    /\ \E h \in CrawlHrefs, t \in Titles :
          /\ Room(h)
          /\ sighted' = << Link(h, t) >>
          /\ LET r == RunPassCollect(discovered_links, seen_hrefs, h, t)
             IN  /\ discovered_links' = r.links
                 /\ seen_hrefs' = r.seen
    /\ UNCHANGED << pc, landing, visited, passVars, treeVars, sections, pdfVars,
                    mergeVars, site, navigated, mdVars >>

\* the navigator was not found, or the three passes are over
SidebarDone ==
    /\ pc = "sidebar"
    /\ pc' = "landing"
    /\ UNCHANGED << crawlVars, treeVars, sections, pdfVars, mergeVars, site, navigated, mdVars >>

\* the sub-section pages visited after the Components landing page: the
\* sub-section links found on it, then the known sub-sections not among them.
\* The pages of the model link to no page under /components/, so the list is
\* the list of the known sub-sections.
sub_links == [ i \in 1..Len(comp_slug_to_name) |-> <<"components", comp_slug_to_name[i][1]>> ]

\* the landing pages of the six sections and of the known sub-sections
LandingPages ==
    { << t, 0 >> : t \in 1..Len(slug_to_top) }
        \cup { << t, s >> : t \in { k \in 1..Len(slug_to_top) : slug_to_top[k][1] = "components" },
                            s \in 1..Len(sub_links) }

LandingStart == << 1, 0 >>
LandingEnd == << Len(slug_to_top) + 1, 0 >>

\* the landing page visited after the one at pos; loaded tells whether the
\* page at pos loaded
NextLanding(pos, loaded) ==
    IF pos[2] = 0
    THEN IF loaded /\ slug_to_top[pos[1]][1] = "components"
         THEN << pos[1], 1 >>
         ELSE << pos[1] + 1, 0 >>
    ELSE IF pos[2] < Len(sub_links)
         THEN << pos[1], pos[2] + 1 >>
         ELSE << pos[1] + 1, 0 >>

\* the position of the run reached with the landing page next: the next
\* iteration of the per-section crawl, or the classification
AtLanding(next) ==
    [pc |-> IF next = LandingEnd THEN "crawled" ELSE "landing", landing |-> next]

\* page.goto of a landing page raises and nothing catches it before the outer
\* "except Exception as e"
GotoRaisedUncaught(pos) == [pc |-> "failed", landing |-> pos]

\* page.goto of a landing page raises: "except Exception: continue" for a
\* section page, "except Exception: pass" for a sub-section page
GotoRaised(pos) == AtLanding(NextLanding(pos, FALSE))

\* per-section crawl: page.goto raises on the landing page
LandingGotoFails ==
    /\ pc = "landing"
    /\ goto_raised' = TRUE
    /\ pc' = GotoRaised(landing).pc
    /\ landing' = GotoRaised(landing).landing
    /\ visited' = visited \cup {landing}
    /\ UNCHANGED << discovered_links, seen_hrefs, sighted, passVars, idx,
                    seen_urls_for_classification, sections_map, page_ctx,
                    classified, sections, pdfVars, mergeVars, site, navigated, mdVars >>

\* per-section crawl: the landing page loads
LandingLoads ==
    /\ pc = "landing"
    /\ goto_raised' = FALSE
    /\ pc' = "collect"
    /\ visited' = visited \cup {landing}
    /\ UNCHANGED << discovered_links, seen_hrefs, sighted, landing, passVars, idx,
                    seen_urls_for_classification, sections_map,
                    page_ctx, classified, sections, pdfVars, mergeVars, site, navigated, mdVars >>

\* per-section crawl: one item collected on a landing page
LandingSighting ==
    /\ pc = "collect"
    /\ \E h \in CrawlHrefs, t \in Titles :
          /\ Room(StripFragment(h))
          /\ sighted' = << Link(h, t) >>
          /\ LET r == AddIfNew(discovered_links, seen_hrefs, Link(h, t))
             IN  /\ discovered_links' = r.links
                 /\ seen_hrefs' = r.seen
    /\ UNCHANGED << pc, landing, visited, passVars, treeVars, sections, pdfVars,
                    mergeVars, site, navigated, mdVars >>

\* per-section crawl: the items of the page are added (for a sub-section
\* page, also when collecting them raised: "except Exception: pass")
LandingDone ==
    /\ pc = "collect"
    /\ pc' = AtLanding(NextLanding(landing, TRUE)).pc
    /\ landing' = NextLanding(landing, TRUE)
    /\ UNCHANGED << discovered_links, seen_hrefs, sighted, visited, passVars, treeVars,
                    sections, pdfVars, mergeVars, site, navigated, mdVars >>

\* reading the links of a section landing page raises: the outer
\* "except Exception as e" sets sections = []
CrawlAborts ==
    /\ pc = "collect"
    /\ landing[2] = 0
    /\ pc' = "failed"
    /\ sections' = << >>
    /\ UNCHANGED << crawlVars, treeVars, pdfVars, mergeVars, site, navigated, mdVars >>

\* export_markdown has not started
MdIdle ==
    /\ md_idx = 1
    /\ url_seen = {}
    /\ manifest = << >>
    /\ md_files = EmptyMap
    /\ manifest_json = << >>
    /\ summary = << >>

Idle ==
    /\ idx = 1
    /\ seen_urls_for_classification = {}
    /\ sections_map = << >>
    /\ goto_raised = FALSE
    /\ classified = << >>
    /\ sections = << >>
    /\ ridx = 1
    /\ generated_files_map = EmptyMap
    /\ hash_to_file = EmptyMap
    /\ files = EmptyMap
    /\ failed_log = << >>
    /\ renders = << >>
    /\ merged = << >>
    /\ outline = << >>
    /\ merge_result = "unset"
    /\ navigated = << >>
    /\ MdIdle
    /\ site = EmptyMap

\* the counters of run_pass before and after crawl_nav
PassIdle ==
    /\ pass_no = 1
    /\ steps = 0
    /\ stable_steps = 0
    /\ last_count = 0
    /\ quiet = 0

Init ==
    /\ pc = "sidebar"
    /\ discovered_links = << >>
    /\ seen_hrefs = {}
    /\ sighted = << >>
    /\ landing = LandingStart
    /\ visited = {}
    /\ PassIdle
    /\ page_ctx = {}
    /\ Idle

(***************************************************************************)
(* run_pass, step by step.  A step is one iteration of                     *)
(* "for _ in range(400)": the links the navigator renders are collected,   *)
(* then the scroll position is read and the counters are updated.          *)
(***************************************************************************)
StepCeiling == 400
StableLimit == 3

\* run_pass("down"), run_pass("up"), run_pass("down")
pass_directions == << "down", "up", "down" >>

\* what the navigator can render in one step
PassShown == { << >>, << Link(H(<<"color">>, FALSE, ""), "t1") >> }

\* "for link in links" on the rendered links
RECURSIVE CollectAll(_, _, _)
CollectAll(links, seen, shown) ==
    IF shown = << >> THEN [links |-> links, seen |-> seen]
    ELSE LET r == RunPassCollect(links, seen, Head(shown).href, Head(shown).title)
         IN  CollectAll(r.links, r.seen, Tail(shown))

\* a loop that has no ceiling
LoopGoesOnForever(n) == TRUE

\* "for _ in range(400)": another iteration begins
LoopGoesOn(n) == n < StepCeiling

\* the counters after the scroll step: count is len(discovered_links)
AfterScroll(stable, last, count, at_edge) ==
    LET atEdge == IF at_edge THEN stable + 1 ELSE stable
    IN  IF at_edge /\ atEdge >= StableLimit
        THEN [break |-> TRUE, stable_steps |-> atEdge, last_count |-> last]
        ELSE IF count = last
             THEN [break |-> FALSE, stable_steps |-> atEdge + 1, last_count |-> last]
             ELSE [break |-> FALSE, stable_steps |-> 0, last_count |-> count]

\* one iteration of the loop of run_pass
RunPassStep ==
    /\ pc = "pass"
    /\ LoopGoesOn(steps)
    /\ steps' = steps + 1
    /\ \E shown \in PassShown, at_edge \in BOOLEAN :
          LET r == CollectAll(discovered_links, seen_hrefs, shown)
              a == AfterScroll(stable_steps, last_count, Len(r.links), at_edge)
          IN  /\ discovered_links' = r.links
              /\ seen_hrefs' = r.seen
              /\ sighted' = IF shown = << >> THEN sighted ELSE << shown[Len(shown)] >>
              /\ stable_steps' = a.stable_steps
              /\ last_count' = a.last_count
              /\ quiet' = IF Len(r.links) = Len(discovered_links) THEN quiet + 1 ELSE 0
              /\ pc' = IF a.break THEN "pass_end" ELSE "pass"
    /\ UNCHANGED << pass_no, landing, visited, treeVars, sections, pdfVars, mergeVars,
                    site, navigated, mdVars >>

\* the loop of run_pass runs out of iterations
RunPassCeiling ==
    /\ pc = "pass"
    /\ ~LoopGoesOn(steps)
    /\ pc' = "pass_end"
    /\ UNCHANGED << crawlVars, treeVars, sections, pdfVars, mergeVars, site, navigated, mdVars >>

\* run_pass returns: crawl_nav calls the next run_pass, or returns
RunPassReturns ==
    /\ pc = "pass_end"
    /\ IF pass_no < Len(pass_directions)
       THEN /\ pass_no' = pass_no + 1
            /\ steps' = 0
            /\ stable_steps' = 0
            /\ last_count' = Len(discovered_links)
            /\ quiet' = 0
            /\ pc' = "pass"
       ELSE /\ pc' = "landing"
            /\ UNCHANGED passVars
    /\ UNCHANGED << discovered_links, seen_hrefs, sighted, landing, visited, treeVars,
                    sections, pdfVars, mergeVars, site, navigated, mdVars >>

Next ==
    \/ SidebarSighting \/ SidebarDone
    \/ LandingGotoFails \/ LandingLoads \/ LandingSighting \/ LandingDone
    \/ CrawlAborts

Spec == Init /\ [][Next]_vars

\* crawl_nav: the three passes over the navigator
InitPass ==
    /\ pc = "pass"
    /\ discovered_links = << >>
    /\ seen_hrefs = {}
    /\ sighted = << >>
    /\ landing = LandingStart
    /\ visited = {}
    /\ page_ctx = {}
    /\ PassIdle
    /\ Idle

NextPass == RunPassStep \/ RunPassCeiling \/ RunPassReturns

SpecPass == InitPass /\ [][NextPass]_vars

(***************************************************************************)
(* Hierarchy classifier and tree assembler.                                *)
(*                                                                         *)
(* The context text of a page is the set of canonical names (top-level and *)
(* sub-section) that occur in it: detect_top_and_sub only asks whether a   *)
(* lower-cased name is a substring of the text.                            *)
(***************************************************************************)
CtxChoices ==
    { {}, {"Foundations"}, {"Components"}, {"Components", "Status"} }

Article(title, url) == [title |-> title, url |-> url, page_num |-> << >>]

\* while i < len(parts) and parts[i] == "human-interface-guidelines": parts.pop(i)
RECURSIVE DropRepeated(_)
DropRepeated(parts) ==
    IF Len(parts) > 2 /\ parts[3] = "human-interface-guidelines"
    THEN DropRepeated(SubSeq(parts, 1, 2) \o SubSeq(parts, 4, Len(parts)))
    ELSE parts

\* the two "continue" of the overview pages
IsOverview(parts) ==
    \/ parts[3] \in DictKeys(slug_to_top) /\ Len(parts) = 3
    \/ parts[3] = "components" /\ Len(parts) = 4

FirstIn(order, ctx) ==
    LET hit == { i \in 1..Len(order) : order[i] \in ctx }
    IN  IF hit = {} THEN None ELSE order[Min(hit)]

detect_top_and_sub(ctx) ==
    LET top == FirstIn(TOP_LEVEL_ORDER, ctx)
    IN  [top |-> top,
         sub |-> IF top = "Components" THEN FirstIn(COMPONENTS_ORDER, ctx) ELSE None]

\* for sub_name_cand, slugs in components_articles_by_sub.items(): if slug in slugs
FlatComponentsSub(slug) ==
    LET hit == { i \in 1..Len(components_articles_by_sub) :
                    slug \in components_articles_by_sub[i][2] }
    IN  IF hit = {} THEN None ELSE components_articles_by_sub[Min(hit)][1]

map_root_slug_to_top(slug) ==
    IF slug \in getting_started_slugs THEN "Getting Started"
    ELSE IF slug \in foundations_slugs THEN "Foundations"
    ELSE IF slug \in patterns_slugs THEN "Patterns"
    ELSE IF slug \in inputs_slugs THEN "Inputs"
    ELSE IF slug \in technologies_slugs THEN "Technologies"
    ELSE None

\* the "# Fallbacks" block, entered when the text gave no top-level name
FallbackTop(parts) ==
    LET slug == parts[3]
    IN  IF slug \in DictKeys(slug_to_top) /\ Len(parts) >= 4
        THEN DictGet(slug_to_top, slug)
        ELSE IF FlatComponentsSub(slug) # None THEN "Components"
        ELSE map_root_slug_to_top(slug)

\* sub_slug.replace("-", " ").title(), on the slugs of the model
TitleCase(slug) ==
    CASE slug = "new-controls" -> "New Controls"
      [] slug = "extras" -> "Extras"
      [] OTHER -> slug

\* the sub-section of a Components article whose text gave none
FallbackSub(parts) ==
    IF Len(parts) >= 4 /\ parts[3] = "components"
    THEN IF parts[4] \in DictKeys(comp_slug_to_name)
         THEN DictGet(comp_slug_to_name, parts[4])
         ELSE TitleCase(parts[4])
    ELSE FlatComponentsSub(parts[3])

\* top_name kept from the previous iteration when the text names no section
ClassifyKeepingTop(parts, ctx) ==
    LET d == detect_top_and_sub(ctx)
        kept == IF classified = << >> THEN None
                ELSE classified[Len(classified)].top
        top == IF d.top # None THEN d.top
               ELSE IF kept # None THEN kept ELSE FallbackTop(parts)
        sub == IF top = "Components" /\ d.sub = None THEN FallbackSub(parts) ELSE d.sub
    IN  [top |-> top, sub |-> sub]

\* the path tables consulted before the text
ClassifyPathFirst(parts, ctx) ==
    LET d == detect_top_and_sub(ctx)
        top == IF FallbackTop(parts) # None THEN FallbackTop(parts) ELSE d.top
        sub == IF top = "Components" /\ d.sub = None THEN FallbackSub(parts) ELSE d.sub
    IN  [top |-> top, sub |-> sub]

\* top_name and sub_name at the placement, from the parts and the context text
Classify(parts, ctx) ==
    LET d == detect_top_and_sub(ctx)
        top == IF d.top # None THEN d.top ELSE FallbackTop(parts)
        sub == IF top = "Components" /\ d.sub = None THEN FallbackSub(parts) ELSE d.sub
    IN  [top |-> top, sub |-> sub]

HasKey(m, name) == \E i \in 1..Len(m) : m[i].title = name
KeyIndex(m, name) == CHOOSE i \in 1..Len(m) : m[i].title = name

ensure_section(m, name) ==
    IF HasKey(m, name) THEN m
    ELSE Append(m, [title |-> name, articles |-> << >>, sub_map |-> << >>])

\* the article put at the head of the section's list
add_article_front(m, section_name, art) ==
    LET m1 == ensure_section(m, section_name)
        k == KeyIndex(m1, section_name)
    IN  [m1 EXCEPT ![k].articles = << art >> \o @]

add_article(m, section_name, art) ==
    LET m1 == ensure_section(m, section_name)
        k == KeyIndex(m1, section_name)
    IN  [m1 EXCEPT ![k].articles = Append(@, art)]

add_sub_article(m, section_name, sub_name, art) ==
    LET m1 == ensure_section(m, section_name)
        k == KeyIndex(m1, section_name)
        sm == m1[k].sub_map
        sm1 == IF HasKey(sm, sub_name) THEN sm
               ELSE Append(sm, [title |-> sub_name, articles |-> << >>])
        j == KeyIndex(sm1, sub_name)
    IN  [m1 EXCEPT ![k].sub_map = [sm1 EXCEPT ![j].articles = Append(@, art)]]

\* the placement at the end of the loop body
\* a placement that keeps an article it could not classify, with a
\* sub-section when one was detected, under a section of its own
PlaceUnclassifiedInOther(m, c, art) ==
    IF c.top = None
    THEN IF c.sub # None
         THEN add_sub_article(m, "Other", c.sub, art)
         ELSE add_article(m, "Other", art)
    ELSE IF c.top = "Components" /\ c.sub # None
         THEN add_sub_article(m, c.top, c.sub, art)
         ELSE add_article(m, c.top, art)

Place(m, c, art) ==
    IF c.top = None THEN m
    ELSE IF c.top = "Components" /\ c.sub # None
         THEN add_sub_article(m, c.top, c.sub, art)
         ELSE add_article(m, c.top, art)

\* the key of seen_urls_for_classification and the url of the article
ClassificationUrlKeepFragment(item) == UrlJoin(base_url, item.href)

ClassificationUrl(item) == UrlJoin(base_url, StripFragment(item.href))

\* if full_url in seen_urls_for_classification: continue
AlreadyClassifiedNever(full_url, seen) == FALSE

AlreadyClassified(full_url, seen) == full_url \in seen

\* page.goto in "try ... except Exception: pass": the page the browser shows
\* afterwards is the article's page when the load succeeded, and the page it
\* showed before otherwise
AfterGoto(loaded, ctx, shown) == IF loaded THEN ctx ELSE shown

\* one iteration of "for item in discovered_links"
ClassifyLink ==
    /\ pc = "classify"
    /\ idx <= Len(discovered_links)
    /\ idx' = idx + 1
    /\ LET item == discovered_links[idx]
           full_url == ClassificationUrl(item)
           parts0 == PathParts(StripFragment(item.href))
           parts == DropRepeated(parts0)
       IN  IF AlreadyClassified(full_url, seen_urls_for_classification)
           THEN UNCHANGED << seen_urls_for_classification, sections_map, page_ctx,
                             goto_raised, classified, navigated >>
           ELSE /\ seen_urls_for_classification' =
                      seen_urls_for_classification \cup {full_url}
                /\ IF Len(parts0) < 3 \/ Len(parts) < 3 \/ IsOverview(parts)
                   THEN UNCHANGED << sections_map, page_ctx, goto_raised, classified,
                                     navigated >>
                   ELSE \E loaded \in BOOLEAN, ctx \in CtxChoices :
                           /\ navigated' = Append(navigated,
                                                  [stage |-> "classify", url |-> full_url])
                           /\ goto_raised' = ~loaded
                           /\ page_ctx' = AfterGoto(loaded, ctx, page_ctx)
                           /\ LET c == Classify(parts, page_ctx')
                              IN  /\ sections_map' =
                                        Place(sections_map, c,
                                              Article(item.title, full_url))
                                  /\ classified' =
                                        Append(classified,
                                               [url |-> full_url, parts |-> parts,
                                                ctx |-> page_ctx',
                                                top |-> c.top, sub |-> c.sub])
    /\ UNCHANGED << pc, crawlVars, sections, pdfVars, mergeVars, site, mdVars >>

SubSections(sm) ==
    [ j \in 1..Len(sm) |-> [title |-> sm[j].title, articles |-> sm[j].articles] ]

\* the sections in the order of sections_map
AssembleTreeDiscoveryOrder(m) ==
    [ i \in 1..Len(m) |->
        [title |-> m[i].title, articles |-> m[i].articles,
         sub_sections |-> SubSections(m[i].sub_map)] ]

\* the sections in canonical order, their sub-sections in the order of _sub_map
AssembleTreeSubsAsSeen(m) ==
    LET known(name) ==
            IF ~HasKey(m, name) THEN << >>
            ELSE LET sec == m[KeyIndex(m, name)]
                 IN  << [title |-> sec.title, articles |-> sec.articles,
                         sub_sections |-> SubSections(sec.sub_map)] >>
    IN  Concat([ i \in 1..Len(TOP_LEVEL_ORDER) |-> known(TOP_LEVEL_ORDER[i]) ])

\* "Convert section map to ordered list"
AssembleTree(m) ==
    LET known(name) ==
            IF ~HasKey(m, name) THEN << >>
            ELSE LET sec == m[KeyIndex(m, name)]
                     inOrder(sub) ==
                         IF HasKey(sec.sub_map, sub)
                         THEN << [title |-> sub,
                                  articles |-> sec.sub_map[KeyIndex(sec.sub_map, sub)].articles] >>
                         ELSE << >>
                     ordered == Concat([ i \in 1..Len(COMPONENTS_ORDER) |->
                                           inOrder(COMPONENTS_ORDER[i]) ])
                     extra == SelectSeq(SubSections(sec.sub_map),
                                        LAMBDA ss : ss.title \notin Range(COMPONENTS_ORDER))
                 IN  << [title |-> sec.title, articles |-> sec.articles,
                         sub_sections |-> IF name = "Components"
                                          THEN ordered \o extra ELSE << >>] >>
        unexpected ==
            SelectSeq([ i \in 1..Len(m) |->
                          [title |-> m[i].title, articles |-> m[i].articles,
                           sub_sections |-> SubSections(m[i].sub_map)] ],
                      LAMBDA sec : sec.title \notin Range(TOP_LEVEL_ORDER))
    IN  Concat([ i \in 1..Len(TOP_LEVEL_ORDER) |-> known(TOP_LEVEL_ORDER[i]) ])
        \o unexpected

\* the loop is over: the ordered list of sections is built and returned
Assemble ==
    /\ pc = "classify"
    /\ idx > Len(discovered_links)
    /\ sections' = AssembleTree(sections_map)
    /\ pc' = "tree"
    /\ UNCHANGED << crawlVars, treeVars, pdfVars, mergeVars, site, navigated, mdVars >>

\* the state the crawler leaves: the browser shows the last page the crawler
\* loaded, and discovered_links is a list the crawler can build: the sidebar passes record links
\* with distinct hrefs, the landing pages then links whose href without
\* fragment is not yet in seen_hrefs
SeenAfter(links, k) ==
    { links[i].href : i \in 1..k }
        \cup { StripFragment(links[i].href) : i \in (k + 1)..Len(links) }

CrawlerShape(links, k) ==
    /\ \A i, j \in 1..k : i # j => links[i].href # links[j].href
    /\ \A j \in (k + 1)..Len(links) :
          StripFragment(links[j].href) \notin SeenAfter(SubSeq(links, 1, j - 1), k)

InitTreeOver(hrefs) ==
    /\ pc = "classify"
    /\ \E n \in 0..MaxLinks : \E hs \in [1..n -> hrefs] : \E k \in 0..n :
          /\ discovered_links = [ i \in 1..n |-> Link(hs[i], "t1") ]
          /\ CrawlerShape(discovered_links, k)
          /\ seen_hrefs = SeenAfter(discovered_links, k)
    /\ sighted = IF discovered_links = << >> THEN << >>
                 ELSE << discovered_links[Len(discovered_links)] >>
    /\ landing = LandingEnd
    /\ visited = LandingPages
    /\ PassIdle
    /\ page_ctx \in CtxChoices
    /\ Idle

InitTree == InitTreeOver(Hrefs)

InitTreeNested == InitTreeOver(NestedHrefs)

NextTree == ClassifyLink \/ Assemble

SpecTree == InitTree /\ [][NextTree]_vars

\* the same loop on links to section roots and to pages of sub-sections
SpecTreeNested == InitTreeNested /\ [][NextTree]_vars

\* the articles of the tree in traversal order: per section the direct
\* articles, then each sub-section's articles
SectionArticles(section) ==
    section.articles
        \o Concat([ j \in 1..Len(section.sub_sections) |->
                      section.sub_sections[j].articles ])

FlattenArticles(tree) ==
    Concat([ i \in 1..Len(tree) |-> SectionArticles(tree[i]) ])

(***************************************************************************)
(* Artifact renderer (generate_pdfs).                                      *)
(*                                                                         *)
(* An article of the tree is addressed by <<i, s, j>>: article j of        *)
(* section i (s = 0) or of its sub-section s.  A file path is              *)
(* <<name, base, counter>>; the site maps each URL to the hash of its      *)
(* normalized main content.                                                *)
(***************************************************************************)
Hashes == {"h1", "h2"}
PageCounts == {1, 2}
CoverPageCounts == {1, 2}
IndexPageCounts == {1, 2}

cover_file == <<"_cover.pdf", 0, 0>>
index_file == <<"_index.pdf", 0, 0>>
merged_path == <<"Apple HIGs Complete.pdf", 0, 0>>

\* for section: for a in articles; for sub_section: for a in articles
SectionMajor(tree) ==
    Concat([ i \in 1..Len(tree) |->
        [ j \in 1..Len(tree[i].articles) |-> <<i, 0, j>> ]
        \o Concat([ s \in 1..Len(tree[i].sub_sections) |->
                      [ j \in 1..Len(tree[i].sub_sections[s].articles) |-> <<i, s, j>> ] ]) ])

\* the traversal with the sub-sections of a section before its direct articles
SubSectionsFirst(tree) ==
    Concat([ i \in 1..Len(tree) |->
        Concat([ s \in 1..Len(tree[i].sub_sections) |->
                   [ j \in 1..Len(tree[i].sub_sections[s].articles) |-> <<i, s, j>> ] ])
        \o [ j \in 1..Len(tree[i].articles) |-> <<i, 0, j>> ] ])

ArticleAt(tree, pos) ==
    IF pos[2] = 0 THEN tree[pos[1]].articles[pos[3]]
    ELSE tree[pos[1]].sub_sections[pos[2]].articles[pos[3]]

\* all_articles of generate_pdfs
RenderOrder(tree) == SectionMajor(tree)

all_articles == [ k \in 1..Len(RenderOrder(sections)) |->
                    ArticleAt(sections, RenderOrder(sections)[k]) ]

\* get_unique_filename: the first counter whose path does not exist
get_unique_filename(fs, base) ==
    LET free == { c \in 0..Cardinality(DOMAIN fs) : <<"article", base, c>> \notin DOMAIN fs }
    IN  <<"article", base, Min(free)>>

Put(f, k, v) == [ x \in DOMAIN f \cup {k} |-> IF x = k THEN v ELSE f[x] ]

\* the loop position after an iteration that raised
\* the same article again
AfterFailureRetry(i, n) == i

AfterFailureAbort(i, n) == n + 1

AfterFailure(i, n) == i + 1

\* if content_hash in hash_to_file
IsDuplicateNever(content_hash, h2f) == FALSE

IsDuplicate(content_hash, h2f) == content_hash \in DOMAIN h2f

\* page.goto, calculate_content_hash or page.pdf raises: except, print "Failed"
RenderFails ==
    /\ pc = "render"
    /\ ridx <= Len(all_articles)
    /\ navigated' = Append(navigated, [stage |-> "render", url |-> all_articles[ridx].url])
    /\ failed_log' = Append(failed_log, all_articles[ridx].url)
    /\ ridx' = AfterFailure(ridx, Len(all_articles))
    /\ UNCHANGED << pc, crawlVars, treeVars, sections, generated_files_map,
                    hash_to_file, files, renders, mergeVars, site, mdVars >>

\* content_hash in hash_to_file: reuse the file and the page count
ReuseDuplicate ==
    /\ pc = "render"
    /\ ridx <= Len(all_articles)
    /\ LET url == all_articles[ridx].url
       IN  /\ IsDuplicate(site[url], hash_to_file)
           /\ generated_files_map' =
                 Put(generated_files_map, url, hash_to_file[site[url]])
           /\ navigated' = Append(navigated, [stage |-> "render", url |-> url])
    /\ ridx' = ridx + 1
    /\ UNCHANGED << pc, crawlVars, treeVars, sections, hash_to_file, files,
                    failed_log, renders, mergeVars, site, mdVars >>

\* the hash is new: page.pdf writes the file, both maps record it
RenderPdf ==
    /\ pc = "render"
    /\ ridx <= Len(all_articles)
    /\ LET url == all_articles[ridx].url
           filepath == get_unique_filename(files, url)
       IN  /\ ~IsDuplicate(site[url], hash_to_file)
           /\ navigated' = Append(navigated, [stage |-> "render", url |-> url])
           /\ \E page_count \in PageCounts :
                 /\ files' = Put(files, filepath, page_count)
                 /\ generated_files_map' =
                       Put(generated_files_map, url,
                           [path |-> filepath, pages |-> page_count])
                 /\ hash_to_file' =
                       Put(hash_to_file, site[url],
                           [path |-> filepath, pages |-> page_count])
                 /\ renders' = Append(renders,
                       [url |-> url, hash |-> site[url], path |-> filepath])
    /\ ridx' = ridx + 1
    /\ UNCHANGED << pc, crawlVars, treeVars, sections, failed_log, mergeVars, site, mdVars >>

\* the loop is over: the cover is rendered and its pages counted
WriteCover ==
    /\ pc = "render"
    /\ ridx > Len(all_articles)
    /\ \E cover_page_count \in CoverPageCounts :
          files' = Put(files, cover_file, cover_page_count)
    /\ pc' = "cover"
    /\ UNCHANGED << crawlVars, treeVars, sections, ridx, generated_files_map,
                    hash_to_file, failed_log, renders, mergeVars, site, navigated, mdVars >>

(***************************************************************************)
(* Pagination / index builder (create_index_html).                         *)
(***************************************************************************)
ArticlesPerIndexPage == 45

Max2(a, b) == IF a >= b THEN a ELSE b

\* total_articles and estimated_index_pages
total_articles(tree) ==
    SumSeq([ i \in 1..Len(tree) |->
        Len(tree[i].articles)
        + SumSeq([ s \in 1..Len(tree[i].sub_sections) |->
                     Len(tree[i].sub_sections[s].articles) ]) ])

estimated_index_pages(tree) ==
    Max2(1, (total_articles(tree) \div ArticlesPerIndexPage) + 1)

\* the order in which create_index_html assigns the page numbers
IndexOrder(tree) == SectionMajor(tree)

\* the page numbers given along a traversal: << >> for an article that gets
\* none, <<n>> otherwise
RECURSIVE IndexWalkCountFirst(_, _, _, _)
IndexWalkCountFirst(arts, current_page, processed_urls, gmap) ==
    IF arts = << >> THEN << >>
    ELSE LET url == Head(arts).url
         IN  IF url \in processed_urls \/ url \notin DOMAIN gmap
             THEN << << >> >>
                  \o IndexWalkCountFirst(Tail(arts), current_page, processed_urls, gmap)
             ELSE << << current_page + gmap[url].pages >> >>
                  \o IndexWalkCountFirst(Tail(arts), current_page + gmap[url].pages,
                                         processed_urls \cup {url}, gmap)

RECURSIVE IndexWalkNumberAll(_, _, _, _)
IndexWalkNumberAll(arts, current_page, processed_urls, gmap) ==
    IF arts = << >> THEN << >>
    ELSE LET url == Head(arts).url
             page_count == IF url \in DOMAIN gmap THEN gmap[url].pages ELSE 0
         IN  << << current_page >> >>
             \o IndexWalkNumberAll(Tail(arts), current_page + page_count,
                                   processed_urls \cup {url}, gmap)

RECURSIVE IndexWalk(_, _, _, _)
IndexWalk(arts, current_page, processed_urls, gmap) ==
    IF arts = << >> THEN << >>
    ELSE LET url == Head(arts).url
         IN  IF url \in processed_urls \/ url \notin DOMAIN gmap
             THEN << << >> >>
                  \o IndexWalk(Tail(arts), current_page, processed_urls, gmap)
             ELSE << << current_page >> >>
                  \o IndexWalk(Tail(arts), current_page + gmap[url].pages,
                               processed_urls \cup {url}, gmap)

\* an index builder that keeps only the articles it numbers
create_index_html_rendered_only(tree, gmap, cover_page_count) ==
    [ i \in 1..Len(tree) |->
        [ title |-> tree[i].title,
          articles |-> SelectSeq(tree[i].articles, LAMBDA a : a.url \in DOMAIN gmap),
          sub_sections |-> [ s \in 1..Len(tree[i].sub_sections) |->
              [ title |-> tree[i].sub_sections[s].title,
                articles |-> SelectSeq(tree[i].sub_sections[s].articles,
                                       LAMBDA a : a.url \in DOMAIN gmap) ] ] ] ]

\* the tree with article["page_num"] set as create_index_html sets it
create_index_html(tree, gmap, cover_page_count) ==
    LET order == IndexOrder(tree)
        arts == [ k \in 1..Len(order) |-> ArticleAt(tree, order[k]) ]
        nums == IndexWalk(arts, cover_page_count + estimated_index_pages(tree), {}, gmap)
        numAt(pos) == nums[CHOOSE k \in 1..Len(order) : order[k] = pos]
        numbered(a, pos) == IF numAt(pos) = << >> THEN a
                            ELSE [a EXCEPT !.page_num = numAt(pos)]
    IN  [ i \in 1..Len(tree) |->
          [ title |-> tree[i].title,
            articles |-> [ j \in 1..Len(tree[i].articles) |->
                             numbered(tree[i].articles[j], <<i, 0, j>>) ],
            sub_sections |-> [ s \in 1..Len(tree[i].sub_sections) |->
                [ title |-> tree[i].sub_sections[s].title,
                  articles |-> [ j \in 1..Len(tree[i].sub_sections[s].articles) |->
                      numbered(tree[i].sub_sections[s].articles[j], <<i, s, j>>) ] ] ] ] ]

\* generate_pdfs: create_index_html, then the index is rendered to index_file
CreateIndex ==
    /\ pc = "cover"
    /\ sections' = create_index_html(sections, generated_files_map, files[cover_file])
    /\ \E index_pages \in IndexPageCounts :
          files' = Put(files, index_file, index_pages)
    /\ pc' = "generated"
    /\ UNCHANGED << crawlVars, treeVars, ridx, generated_files_map, hash_to_file,
                    failed_log, renders, mergeVars, site, navigated, mdVars >>

(***************************************************************************)
(* Merger (merge_pdfs).                                                    *)
(***************************************************************************)
\* the order in which merge_pdfs appends the files and walks the outline
MergeOrder(tree) == SectionMajor(tree)

Exists(fs, path) == path \in DOMAIN fs

\* files_to_append
files_to_append(tree, gmap, fs) ==
    LET order == MergeOrder(tree)
        arts == [ k \in 1..Len(order) |-> ArticleAt(tree, order[k]) ]
        kept == SelectSeq(arts, LAMBDA a :
                    a.url \in DOMAIN gmap /\ Exists(fs, gmap[a.url].path))
    IN  [ k \in 1..Len(kept) |-> gmap[kept[k].url].path ]

\* "4. Build the outline": the items added for a list of articles under the
\* item numbered parent, from page current_page on
RECURSIVE ArticleItemsNoAdvance(_, _, _, _, _)
ArticleItemsNoAdvance(arts, current_page, parent, gmap, fs) ==
    IF arts = << >> THEN << >>
    ELSE LET a == Head(arts)
         IN  IF a.url \in DOMAIN gmap /\ Exists(fs, gmap[a.url].path)
             THEN << [kind |-> "article", title |-> a.title, page |-> current_page,
                      parent |-> parent, url |-> <<a.url>>] >>
                  \o ArticleItemsNoAdvance(Tail(arts), current_page, parent, gmap, fs)
             ELSE ArticleItemsNoAdvance(Tail(arts), current_page, parent, gmap, fs)

\* an outline item for every article of the tree, rendered or not
RECURSIVE ArticleItemsForAll(_, _, _, _, _)
ArticleItemsForAll(arts, current_page, parent, gmap, fs) ==
    IF arts = << >> THEN << >>
    ELSE LET a == Head(arts)
             pages == IF a.url \in DOMAIN gmap /\ Exists(fs, gmap[a.url].path)
                      THEN gmap[a.url].pages ELSE 0
         IN  << [kind |-> "article", title |-> a.title, page |-> current_page,
                 parent |-> parent, url |-> <<a.url>>] >>
             \o ArticleItemsForAll(Tail(arts), current_page + pages, parent, gmap, fs)

RECURSIVE ArticleItems(_, _, _, _, _)
ArticleItems(arts, current_page, parent, gmap, fs) ==
    IF arts = << >> THEN << >>
    ELSE LET a == Head(arts)
         IN  IF a.url \in DOMAIN gmap /\ Exists(fs, gmap[a.url].path)
             THEN << [kind |-> "article", title |-> a.title, page |-> current_page,
                      parent |-> parent, url |-> <<a.url>>] >>
                  \o ArticleItems(Tail(arts), current_page + gmap[a.url].pages,
                                  parent, gmap, fs)
             ELSE ArticleItems(Tail(arts), current_page, parent, gmap, fs)

\* the pages a list of articles advances current_page by
PagesOf(arts, gmap, fs) ==
    SumSeq([ k \in 1..Len(arts) |->
        IF arts[k].url \in DOMAIN gmap /\ Exists(fs, gmap[arts[k].url].path)
        THEN gmap[arts[k].url].pages ELSE 0 ])

RECURSIVE SubSectionItems(_, _, _, _, _, _)
SubSectionItems(subs, current_page, parent, count, gmap, fs) ==
    IF subs = << >> THEN << >>
    ELSE LET mine == << [kind |-> "sub_section", title |-> Head(subs).title,
                         page |-> current_page, parent |-> parent, url |-> << >>] >>
                     \o ArticleItems(Head(subs).articles, current_page, count + 1, gmap, fs)
         IN  mine \o SubSectionItems(Tail(subs),
                                     current_page + PagesOf(Head(subs).articles, gmap, fs),
                                     parent, count + Len(mine), gmap, fs)

RECURSIVE SectionItems(_, _, _, _, _)
SectionItems(tree, current_page, count, gmap, fs) ==
    IF tree = << >> THEN << >>
    ELSE LET section == Head(tree)
             direct == ArticleItems(section.articles, current_page, count + 1, gmap, fs)
             after == current_page + PagesOf(section.articles, gmap, fs)
             subs == SubSectionItems(section.sub_sections, after, count + 1,
                                     count + 1 + Len(direct), gmap, fs)
             mine == << [kind |-> "section", title |-> section.title,
                         page |-> current_page, parent |-> 0, url |-> << >>] >>
                     \o direct \o subs
             pages == PagesOf(section.articles, gmap, fs)
                      + SumSeq([ s \in 1..Len(section.sub_sections) |->
                                   PagesOf(section.sub_sections[s].articles, gmap, fs) ])
         IN  mine \o SectionItems(Tail(tree), current_page + pages,
                                  count + Len(mine), gmap, fs)

PageCountOf(fs, path) == IF Exists(fs, path) THEN fs[path] ELSE 0

\* "Clean up individual PDFs": the paths os.remove is called on, in order
RECURSIVE Dedup(_)
Dedup(s) ==
    IF s = << >> THEN << >>
    ELSE << Head(s) >> \o Dedup(SelectSeq(Tail(s), LAMBDA x : x # Head(s)))

CleanupList(tree, gmap, fs) ==
    LET order == RenderOrder(tree)
        arts == [ k \in 1..Len(order) |-> ArticleAt(tree, order[k]) ]
        inMap == SelectSeq(arts, LAMBDA a : a.url \in DOMAIN gmap)
    IN  SelectSeq(<< cover_file, index_file >>
                    \o Dedup([ k \in 1..Len(inMap) |-> gmap[inMap[k].url].path ]),
                  LAMBDA path : Exists(fs, path))

Without(fs, paths) == [ x \in DOMAIN fs \ paths |-> fs[x] ]

\* merge_pdfs; removed is the number of os.remove calls that succeed before
\* one raises (all of them when none raises)
MergeBody(tree, gmap, fs, removed) ==
    LET appended == (IF Exists(fs, cover_file) THEN << cover_file >> ELSE << >>)
                    \o (IF Exists(fs, index_file) THEN << index_file >> ELSE << >>)
                    \o files_to_append(tree, gmap, fs)
        start == PageCountOf(fs, cover_file) + PageCountOf(fs, index_file)
        doc == [ k \in 1..Len(appended) |->
                   [path |-> appended[k], pages |-> fs[appended[k]]] ]
        written == Put(fs, merged_path, SumSeq([ k \in 1..Len(doc) |-> doc[k].pages ]))
        cleanup == CleanupList(tree, gmap, fs)
    IN  [ result |-> merged_path,
          merged |-> doc,
          outline |-> SectionItems(tree, start, 0, gmap, fs),
          files |-> Without(written, { cleanup[k] : k \in 1..removed }) ]

\* merge_pdfs without its test of the artifact map
MergeOutcomeNoEmptyCheck(tree, gmap, fs, removed) ==
    MergeBody(tree, gmap, fs, removed)

MergeOutcome(tree, gmap, fs, removed) ==
    IF DOMAIN gmap = {}
    THEN [ result |-> None, merged |-> << >>, outline |-> << >>, files |-> fs ]
    ELSE MergeBody(tree, gmap, fs, removed)

Merge ==
    /\ pc = "generated"
    /\ \E removed \in 0..Len(CleanupList(sections, generated_files_map, files)) :
          LET out == MergeOutcome(sections, generated_files_map, files, removed)
          IN  /\ merge_result' = out.result
              /\ merged' = out.merged
              /\ outline' = out.outline
              /\ files' = out.files
    /\ pc' = "merged"
    /\ UNCHANGED << crawlVars, treeVars, sections, ridx, generated_files_map,
                    hash_to_file, failed_log, renders, site, navigated, mdVars >>

\* the trees of the PDF pipeline: "Foundations" with direct articles,
\* "Components" with direct articles and two sub-sections; a node is in the
\* tree when it holds an article.  The URLs are 1, 2, ... in tree order.
TreeOf(n1, n2, n3, n4) ==
    LET arts(from, n) == [ j \in 1..n |-> Article(from + j, from + j) ]
        sub(name, from, n) ==
            IF n = 0 THEN << >>
            ELSE << [title |-> name, articles |-> arts(from, n)] >>
    IN  (IF n1 = 0 THEN << >>
         ELSE << [title |-> "Foundations", articles |-> arts(0, n1),
                  sub_sections |-> << >>] >>)
        \o (IF n2 + n3 + n4 = 0 THEN << >>
            ELSE << [title |-> "Components", articles |-> arts(n1, n2),
                     sub_sections |-> sub("Content", n1 + n2, n3)
                                      \o sub("Status", n1 + n2 + n3, n4)] >>)

InitPdf ==
    /\ pc = "render"
    /\ discovered_links = << >>
    /\ seen_hrefs = {}
    /\ sighted = << >>
    /\ landing = LandingEnd
    /\ visited = LandingPages
    /\ PassIdle
    /\ idx = 1
    /\ seen_urls_for_classification = {}
    /\ sections_map = << >>
    /\ page_ctx = {}
    /\ goto_raised = FALSE
    /\ classified = << >>
    /\ \E n1, n2, n3, n4 \in 0..MaxArticles :
          /\ n1 + n2 + n3 + n4 <= MaxArticles
          /\ sections = TreeOf(n1, n2, n3, n4)
          /\ site \in [1..(n1 + n2 + n3 + n4) -> Hashes]
    /\ ridx = 1
    /\ generated_files_map = EmptyMap
    /\ hash_to_file = EmptyMap
    /\ files = EmptyMap
    /\ failed_log = << >>
    /\ renders = << >>
    /\ merged = << >>
    /\ outline = << >>
    /\ merge_result = "unset"
    /\ navigated = << >>
    /\ MdIdle

NextPdf ==
    RenderFails \/ ReuseDuplicate \/ RenderPdf \/ WriteCover \/ CreateIndex \/ Merge

SpecPdf == InitPdf /\ [][NextPdf]_vars

\* main: sections = get_article_urls(), then generate_pdfs(sections) and
\* merge_pdfs; the pages show their content when the renderer loads them
main_generate_pdfs ==
    /\ pc = "tree"
    /\ site' \in [ { a.url : a \in Range(FlattenArticles(sections)) } -> Hashes ]
    /\ pc' = "render"
    /\ UNCHANGED << crawlVars, treeVars, sections, pdfVars, mergeVars, navigated, mdVars >>

\* the hrefs of a whole run: two of them name the same page
RunHrefs ==
    { H(<<"color">>, FALSE, ""), H(<<"color">>, FALSE, "f"), H(<<"buttons">>, FALSE, "") }

InitRun == InitTreeOver(RunHrefs)

NextRun == NextTree \/ main_generate_pdfs \/ NextPdf

SpecRun == InitRun /\ [][NextRun]_vars

(***************************************************************************)
(* Markdown exporter (export_markdown).                                    *)
(*                                                                         *)
(* A file path is <<section slug, sub-section slug or "", article slug>>.  *)
(***************************************************************************)
\* the article titles of the Markdown trees
MdTitles == {"Color", "color", "Buttons"}

\* slugify, on the strings of the model
slugify(text) ==
    CASE text = "Color" -> "color"
      [] text = "color" -> "color"
      [] text = "Buttons" -> "buttons"
      [] text = "Foundations" -> "foundations"
      [] text = "Components" -> "components"
      [] text = "Content" -> "content"
      [] text = "Status" -> "status"
      [] OTHER -> "untitled"

\* the strings of the model in the order of Python's str comparison
StringOrder ==
    << "Buttons", "Color", "Components", "Content", "Foundations", "Status", "color" >>

StrLess(a, b) ==
    (CHOOSE k \in 1..Len(StringOrder) : StringOrder[k] = a)
        < (CHOOSE k \in 1..Len(StringOrder) : StringOrder[k] = b)

\* "Flatten unique articles preserving order": (sec_title, sub title or None, article)
md_articles(tree) ==
    Concat([ i \in 1..Len(tree) |->
        [ j \in 1..Len(tree[i].articles) |->
            [sec |-> tree[i].title, sub |-> None, art |-> tree[i].articles[j]] ]
        \o Concat([ s \in 1..Len(tree[i].sub_sections) |->
             [ j \in 1..Len(tree[i].sub_sections[s].articles) |->
                 [sec |-> tree[i].title, sub |-> tree[i].sub_sections[s].title,
                  art |-> tree[i].sub_sections[s].articles[j]] ] ]) ])

\* write_markdown_file: the path written and the manifest entry made of it
file_path(sec, sub, title) ==
    << slugify(sec), IF sub = None THEN "" ELSE slugify(sub), slugify(title) >>

manifest_item(sec, sub, art) ==
    [title |-> art.title, apple_url |-> art.url, section |-> sec, sub_section |-> sub,
     slug |-> slugify(art.title), relative_path |-> file_path(sec, sub, art.title)]

\* one iteration of the export loop in which nothing raises
ExportArticle ==
    /\ pc = "md_export"
    /\ md_idx <= Len(md_articles(sections))
    /\ md_idx' = md_idx + 1
    /\ LET a == md_articles(sections)[md_idx]
           item == manifest_item(a.sec, a.sub, a.art)
       IN  IF a.art.url \in url_seen
           THEN UNCHANGED << url_seen, manifest, md_files >>
           ELSE /\ url_seen' = url_seen \cup {a.art.url}
                /\ md_files' = Put(md_files, item.relative_path, a.art.url)
                /\ manifest' = Append(manifest, item)
    /\ UNCHANGED << pc, crawlVars, treeVars, sections, pdfVars, mergeVars, site, navigated,
                    manifest_json, summary >>

\* one iteration in which page.goto or the conversion raises: "Failed MD export"
ExportArticleFails ==
    /\ pc = "md_export"
    /\ md_idx <= Len(md_articles(sections))
    /\ md_articles(sections)[md_idx].art.url \notin url_seen
    /\ md_idx' = md_idx + 1
    /\ url_seen' = url_seen \cup {md_articles(sections)[md_idx].art.url}
    /\ UNCHANGED << pc, crawlVars, treeVars, sections, pdfVars, mergeVars, site, navigated,
                    manifest, md_files, manifest_json, summary >>

\* the sort key (section, sub_section, title): tuples compare element by
\* element, and None < str raises TypeError
SortKeyRaises(items) ==
    \E i, j \in 1..Len(items) :
        /\ items[i].section = items[j].section
        /\ (items[i].sub_section = None) # (items[j].sub_section = None)

KeyLess(a, b) ==
    IF a.section # b.section THEN StrLess(a.section, b.section)
    ELSE IF a.sub_section # b.sub_section THEN StrLess(a.sub_section, b.sub_section)
    ELSE IF a.title # b.title THEN StrLess(a.title, b.title)
    ELSE FALSE

\* list.sort is stable
RECURSIVE InsertSorted(_, _)
InsertSorted(sorted, x) ==
    IF sorted = << >> THEN << x >>
    ELSE IF KeyLess(x, Head(sorted)) THEN << x >> \o sorted
    ELSE << Head(sorted) >> \o InsertSorted(Tail(sorted), x)

RECURSIVE SortManifest(_)
SortManifest(items) ==
    IF items = << >> THEN << >>
    ELSE InsertSorted(SortManifest(SubSeq(items, 1, Len(items) - 1)), items[Len(items)])

\* the lines of SUMMARY.md after "# Summary": indent, text and link target
RECURSIVE SummaryLines(_, _, _)
SummaryLines(items, current_sec, current_sub) ==
    IF items = << >> THEN << >>
    ELSE LET item == Head(items)
             new_sec == item.section # current_sec
             cur_sub == IF new_sec THEN None ELSE current_sub
             new_sub == item.sub_section # None /\ item.sub_section # cur_sub
         IN  (IF new_sec
              THEN << [indent |-> 0, text |-> item.section, rel |-> << >>] >> ELSE << >>)
             \o (IF new_sub
                 THEN << [indent |-> 2, text |-> item.sub_section, rel |-> << >>] >>
                 ELSE << >>)
             \o << [indent |-> IF item.sub_section # None THEN 4 ELSE 2,
                    text |-> item.title, rel |-> << item.relative_path >>] >>
             \o SummaryLines(Tail(items), item.section,
                             IF new_sub THEN item.sub_section ELSE cur_sub)

\* the loop is over: README.md, then create_summary_and_manifest, which is
\* called outside every try block; when the sort raises the run ends there
\* with neither file written
FinishExport ==
    /\ pc = "md_export"
    /\ md_idx > Len(md_articles(sections))
    /\ IF SortKeyRaises(manifest)
       THEN /\ pc' = "md_crashed"
            /\ UNCHANGED << manifest, manifest_json, summary >>
       ELSE /\ manifest' = SortManifest(manifest)
            /\ manifest_json' = << manifest' >>
            /\ summary' = << SummaryLines(manifest', None, None) >>
            /\ pc' = "md_done"
    /\ UNCHANGED << crawlVars, treeVars, sections, pdfVars, mergeVars, site, navigated,
                    md_idx, url_seen, md_files >>

\* a tree of TreeOf with the article titles t
Retitled(tree, t) ==
    LET arts(as) == [ j \in 1..Len(as) |-> Article(t[as[j].url], as[j].url) ]
    IN  [ i \in 1..Len(tree) |->
          [ title |-> tree[i].title,
            articles |-> arts(tree[i].articles),
            sub_sections |-> [ s \in 1..Len(tree[i].sub_sections) |->
                [ title |-> tree[i].sub_sections[s].title,
                  articles |-> arts(tree[i].sub_sections[s].articles) ] ] ] ]

InitMd ==
    /\ pc = "md_export"
    /\ discovered_links = << >>
    /\ seen_hrefs = {}
    /\ sighted = << >>
    /\ landing = LandingEnd
    /\ visited = LandingPages
    /\ PassIdle
    /\ idx = 1
    /\ seen_urls_for_classification = {}
    /\ sections_map = << >>
    /\ page_ctx = {}
    /\ goto_raised = FALSE
    /\ classified = << >>
    /\ \E n1, n2, n3, n4 \in 0..MaxArticles :
          /\ n1 + n2 + n3 + n4 <= MaxArticles
          /\ \E t \in [1..(n1 + n2 + n3 + n4) -> MdTitles] :
                sections = Retitled(TreeOf(n1, n2, n3, n4), t)
    /\ site = EmptyMap
    /\ ridx = 1
    /\ generated_files_map = EmptyMap
    /\ hash_to_file = EmptyMap
    /\ files = EmptyMap
    /\ failed_log = << >>
    /\ renders = << >>
    /\ merged = << >>
    /\ outline = << >>
    /\ merge_result = "unset"
    /\ navigated = << >>
    /\ MdIdle

NextMd == ExportArticle \/ ExportArticleFails \/ FinishExport

SpecMd == InitMd /\ [][NextMd]_vars

(***************************************************************************)
(* C1: the tree returned by get_article_urls holds each article URL at     *)
(* most once, over the direct articles and the sub-sections' articles of   *)
(* all sections together.                                                  *)
(***************************************************************************)
UrlsUnique(arts) ==
    \A i, j \in 1..Len(arts) : i # j => arts[i].url # arts[j].url

C1_TreeUrlsUnique ==
    /\ UrlsUnique(FlattenArticles(sections))
    /\ \A k \in 1..Len(sections_map) :
          UrlsUnique(sections_map[k].articles
                        \o Concat([ j \in 1..Len(sections_map[k].sub_map) |->
                                      sections_map[k].sub_map[j].articles ]))

\* two links of the list have the same URL, the tree holds that URL, and it
\* holds another article as well
C1_Witness ==
    /\ pc = "tree"
    /\ Len(FlattenArticles(sections)) >= 2
    /\ \E i, j \in 1..Len(discovered_links) :
          /\ i < j
          /\ ClassificationUrl(discovered_links[i]) = ClassificationUrl(discovered_links[j])
          /\ \E a \in Range(FlattenArticles(sections)) :
                a.url = ClassificationUrl(discovered_links[i])

(***************************************************************************)
(* C2 (as stated): links are deduplicated by normalized path, so no two    *)
(* articles of the tree have URLs that differ only by a query string, a    *)
(* fragment or a trailing slash.                                           *)
(***************************************************************************)
\* the text of a path segment before its "?", on the segments of the model
StripQuery(seg) ==
    CASE seg = "color?q" -> "color"
      [] seg = "foundations?q" -> "foundations"
      [] OTHER -> seg

NormalizedPath(u) == [ i \in 1..Len(u.segs) |-> StripQuery(u.segs[i]) ]

C3_FirstOccurrenceKept ==
    [][\A i \in 1..Len(discovered_links) :
          /\ i <= Len(discovered_links')
          /\ discovered_links'[i] = discovered_links[i]]_vars

\* a link was sighted again, with another title than the recorded one
C3_Witness ==
    /\ sighted # << >>
    /\ \E i \in 1..Len(discovered_links) :
          /\ discovered_links[i].href = sighted[1].href
          /\ discovered_links[i].title # sighted[1].title
          /\ \A j \in 1..Len(discovered_links) :
                discovered_links[j] = sighted[1] => i < j

(***************************************************************************)
(* C4 (as stated): once the render loop is over, every content hash that   *)
(* an article of the tree has was rendered exactly once, and the           *)
(* ArtifactMap entries of its articles hold that one path and page count.  *)
(***************************************************************************)
RendersOf(h) == { k \in 1..Len(renders) : renders[k].hash = h }

EntriesAgree ==
    \A u \in DOMAIN generated_files_map :
        /\ \E k \in RendersOf(site[u]) :
              /\ generated_files_map[u].path = renders[k].path
              /\ generated_files_map[u].pages = generated_files_map[renders[k].url].pages
        /\ \A v \in DOMAIN generated_files_map :
              site[u] = site[v] => generated_files_map[u] = generated_files_map[v]

C4_ExactlyOneRenderPerHash ==
    pc \in {"cover", "generated", "merged"} =>
        /\ \A u \in DOMAIN site : Cardinality(RendersOf(site[u])) = 1
        /\ EntriesAgree

(***************************************************************************)
(* C4 (amended): every content hash is rendered at most once, exactly once *)
(* when one of its articles has an ArtifactMap entry, and the entries of   *)
(* its articles hold that one path and page count.                         *)
(***************************************************************************)
C4_AtMostOneRenderPerHash ==
    /\ \A h \in Hashes : Cardinality(RendersOf(h)) <= 1
    /\ \A u \in DOMAIN generated_files_map : Cardinality(RendersOf(site[u])) = 1
    /\ EntriesAgree

\* two articles with the same content: one render, two equal entries
C4_Witness ==
    /\ pc = "generated"
    /\ \E u, v \in DOMAIN generated_files_map :
          /\ u # v
          /\ site[u] = site[v]
          /\ generated_files_map[u] = generated_files_map[v]
          /\ Cardinality(RendersOf(site[u])) = 1

(***************************************************************************)
(* C5: an article whose render raised has no ArtifactMap entry and no      *)
(* hash-to-artifact entry, and the loop goes on: every article before the  *)
(* loop position was processed, and the run leaves the loop only after the *)
(* last article.                                                           *)
(***************************************************************************)
Processed == Range(failed_log) \cup DOMAIN generated_files_map

C5_FailureSkipsOneArticle ==
    /\ \A u \in Range(failed_log) :
          /\ u \notin DOMAIN generated_files_map
          /\ \A h \in DOMAIN hash_to_file : hash_to_file[h].path[2] # u
          /\ \A k \in 1..Len(renders) : renders[k].url # u
    /\ pc = "render" =>
          Processed = { FlattenArticles(sections)[k].url : k \in 1..(ridx - 1) }
    /\ pc \in {"cover", "generated", "merged"} =>
          Processed = { a.url : a \in Range(FlattenArticles(sections)) }

\* a render raised and a later article was rendered
C5_Witness ==
    /\ pc = "generated"
    /\ \E u \in Range(failed_log) : \E k \in 1..Len(renders) : renders[k].url > u

(***************************************************************************)
(* C6: the renderer, the index builder and the merger walk the tree in the *)
(* same order (sections in tree order, direct articles, then each          *)
(* sub-section's articles): the articles in the order of their page        *)
(* numbers are the artifacts in the order of their concatenation, and the  *)
(* renders happened in that order.                                         *)
(***************************************************************************)
Numbered == { a \in Range(FlattenArticles(sections)) : a.page_num # << >> }

\* the place of a numbered article among the numbered ones, by page number
Rank(a) == 1 + Cardinality({ b \in Numbered : b.page_num[1] < a.page_num[1] })

Content == SubSeq(merged, 3, Len(merged))

C6_SameTraversalOrder ==
    (pc = "merged" /\ merge_result # None) =>
        LET arts == FlattenArticles(sections)
        IN  /\ Len(Content) = Cardinality(Numbered)
            /\ \A a \in Numbered :
                  Content[Rank(a)].path = generated_files_map[a.url].path
            /\ \A p, q \in 1..Len(arts) :
                  (p < q /\ arts[p] \in Numbered /\ arts[q] \in Numbered)
                      => Rank(arts[p]) < Rank(arts[q])
            /\ \A k, l \in 1..Len(renders) : \A a, b \in Numbered :
                  (k < l /\ a.url = renders[k].url /\ b.url = renders[l].url)
                      => Rank(a) < Rank(b)

\* a section with a direct article and a sub-section article, both merged
C6_Witness ==
    /\ pc = "merged"
    /\ merge_result # None
    /\ \E i \in 1..Len(sections) :
          /\ \E a \in Range(sections[i].articles) : a \in Numbered
          /\ \E s \in 1..Len(sections[i].sub_sections) :
                \E a \in Range(sections[i].sub_sections[s].articles) : a \in Numbered

(***************************************************************************)
(* C7: the page_num of an article that has an ArtifactMap entry is the     *)
(* cover page count plus the estimated index page count plus the page      *)
(* counts of the entries of the articles before it in the traversal.       *)
(***************************************************************************)
PagesBefore(arts, k) ==
    SumSeq([ l \in 1..(k - 1) |->
        IF arts[l].url \in DOMAIN generated_files_map
        THEN generated_files_map[arts[l].url].pages ELSE 0 ])

C7_PageNumIsCumulative ==
    pc = "generated" =>
        LET arts == FlattenArticles(sections)
            estimate == Max2(1, (Len(arts) \div ArticlesPerIndexPage) + 1)
        IN  \A k \in 1..Len(arts) :
                arts[k].url \in DOMAIN generated_files_map =>
                    arts[k].page_num =
                        << files[cover_file] + estimate + PagesBefore(arts, k) >>

\* an article numbered after one article with an entry and one without
C7_Witness ==
    /\ pc = "generated"
    /\ LET arts == FlattenArticles(sections)
       IN  \E k \in 1..Len(arts) :
              /\ arts[k].page_num # << >>
              /\ \E l \in 1..(k - 1) : arts[l].url \in DOMAIN generated_files_map
              /\ \E l \in 1..(k - 1) : arts[l].url \notin DOMAIN generated_files_map

(***************************************************************************)
(* C8 (as stated): the outline entry of every article points at the        *)
(* article's page_num.                                                     *)
(***************************************************************************)
ArticleItemsOfOutline == { k \in 1..Len(outline) : outline[k].kind = "article" }

PageNumOf(url) ==
    (CHOOSE a \in Range(FlattenArticles(sections)) : a.url = url).page_num

C8_OutlinePointsAtPageNum ==
    (pc = "merged" /\ merge_result # None) =>
        /\ \A a \in Numbered : \E k \in ArticleItemsOfOutline : outline[k].url = << a.url >>
        /\ \A k \in ArticleItemsOfOutline :
              << outline[k].page >> = PageNumOf(outline[k].url[1])

(***************************************************************************)
(* C8 (amended): the outline entry of every article points at the          *)
(* article's page_num plus the difference between the page count of the    *)
(* index artifact and the estimated index page count; at page_num itself   *)
(* when the index artifact has the estimated number of pages.              *)
(***************************************************************************)
C8_OutlinePointsAtPageNumPlusDrift ==
    (pc = "merged" /\ merge_result # None) =>
        LET drift == merged[2].pages - estimated_index_pages(sections)
        IN  /\ \A a \in Numbered :
                  \E k \in ArticleItemsOfOutline : outline[k].url = << a.url >>
            /\ \A k \in ArticleItemsOfOutline :
                  << outline[k].page - drift >> = PageNumOf(outline[k].url[1])

\* an outline with two article entries where the index artifact is longer
\* than estimated
C8_Witness ==
    /\ pc = "merged"
    /\ merge_result # None
    /\ merged[2].pages # estimated_index_pages(sections)
    /\ Cardinality(ArticleItemsOfOutline) >= 2

(***************************************************************************)
(* C9 (as stated): after the index builder has run, every article of the   *)
(* tree has a page_num.                                                    *)
(***************************************************************************)
C9_EveryArticleNumbered ==
    pc \in {"generated", "merged"} =>
        \A a \in Range(FlattenArticles(sections)) : a.page_num # << >>

(***************************************************************************)
(* C9 (amended): after the index builder has run, an article of the tree   *)
(* has a page_num exactly when it has an ArtifactMap entry; before, no     *)
(* article has one.                                                        *)
(***************************************************************************)
C9_NumberedIffRendered ==
    /\ pc \in {"generated", "merged"} =>
          \A a \in Range(FlattenArticles(sections)) :
              a.page_num # << >> <=> a.url \in DOMAIN generated_files_map
    /\ pc \in {"render", "cover"} =>
          \A a \in Range(FlattenArticles(sections)) : a.page_num = << >>

\* the index builder has run on a tree with a rendered and a failed article
C9_Witness ==
    /\ pc = "generated"
    /\ \E a, b \in Range(FlattenArticles(sections)) :
          /\ a.page_num # << >>
          /\ b.page_num = << >>
          /\ b.url \in Range(failed_log)

(***************************************************************************)
(* C10: with an empty ArtifactMap merge_pdfs returns the failure value,    *)
(* appends nothing, adds no outline item, writes no merged file and        *)
(* deletes nothing: the cover and the index are the only files.            *)
(***************************************************************************)
C10_EmptyMapMergesNothing ==
    (pc = "merged" /\ DOMAIN generated_files_map = {}) =>
        /\ merge_result = None
        /\ merged = << >>
        /\ outline = << >>
        /\ DOMAIN files = {cover_file, index_file}

\* merge_pdfs has returned on the empty tree
C10_Witness ==
    /\ pc = "merged"
    /\ sections = << >>
    /\ merge_result = None

(***************************************************************************)
(* C11: whatever the order in which the links were discovered, the         *)
(* top-level sections of the returned tree are in the canonical order      *)
(* (TOP_LEVEL_ORDER), and a section that is not canonical comes after all  *)
(* the canonical ones, in the order in which the sections were first seen. *)
(***************************************************************************)
TitlesOf(s) == [ i \in 1..Len(s) |-> s[i].title ]

IndexIn(s, x) == Min({ i \in 1..Len(s) : s[i] = x })

\* out lists the names of seen once each: those of canon first and in the
\* order of canon, then the others in the order of seen
CanonicalThenFirstSeen(out, canon, seen) ==
    /\ Range(out) = Range(seen)
    /\ Len(out) = Cardinality(Range(out))
    /\ \A i, j \in 1..Len(out) :
          i < j =>
             IF out[i] \in Range(canon)
             THEN out[j] \in Range(canon) =>
                     IndexIn(canon, out[i]) < IndexIn(canon, out[j])
             ELSE /\ out[j] \notin Range(canon)
                  /\ IndexIn(seen, out[i]) < IndexIn(seen, out[j])

C11_SectionsInCanonicalOrder ==
    pc = "tree" =>
        CanonicalThenFirstSeen(TitlesOf(sections), TOP_LEVEL_ORDER,
                               TitlesOf(sections_map))

\* a tree of two sections or more whose sections were first seen in another
\* order than the one they have in the tree
C11_Witness ==
    /\ pc = "tree"
    /\ Len(sections) >= 2
    /\ TitlesOf(sections) # TitlesOf(sections_map)

(***************************************************************************)
(* C12: in the Components section of the tree, the sub-sections named in   *)
(* COMPONENTS_ORDER come first and in that order, and every other          *)
(* sub-section comes after all of them, in the order in which the          *)
(* sub-sections were first seen.                                           *)
(***************************************************************************)
C12_SubSectionsInCanonicalOrder ==
    pc = "tree" =>
        \A i \in 1..Len(sections) :
            sections[i].title = "Components" =>
                CanonicalThenFirstSeen(
                    TitlesOf(sections[i].sub_sections), COMPONENTS_ORDER,
                    TitlesOf(sections_map[KeyIndex(sections_map, "Components")].sub_map))

\* two unknown sub-sections were seen before a canonical one, the later
\* unknown one being first in alphabetical order
C12_Witness ==
    /\ pc = "tree"
    /\ \E i \in 1..Len(sections) :
          /\ sections[i].title = "Components"
          /\ TitlesOf(sections[i].sub_sections) = << "Content", "New Controls", "Extras" >>
    /\ TitlesOf(sections_map[KeyIndex(sections_map, "Components")].sub_map)
          = << "New Controls", "Extras", "Content" >>

(***************************************************************************)
(* C13: in every section and every sub-section, the articles are in the    *)
(* order in which the crawler discovered their links: of two articles of   *)
(* a node, the one whose link comes first in discovered_links comes first. *)
(***************************************************************************)
FirstSeenAt(url) ==
    Min({ i \in 1..Len(discovered_links) :
            ClassificationUrl(discovered_links[i]) = url })

InDiscoveryOrder(arts) ==
    \A i, j \in 1..Len(arts) :
        i < j => FirstSeenAt(arts[i].url) < FirstSeenAt(arts[j].url)

C13_ArticlesInDiscoveryOrder ==
    /\ \A k \in 1..Len(sections_map) :
          /\ InDiscoveryOrder(sections_map[k].articles)
          /\ \A j \in 1..Len(sections_map[k].sub_map) :
                InDiscoveryOrder(sections_map[k].sub_map[j].articles)
    /\ \A k \in 1..Len(sections) :
          /\ InDiscoveryOrder(sections[k].articles)
          /\ \A j \in 1..Len(sections[k].sub_sections) :
                InDiscoveryOrder(sections[k].sub_sections[j].articles)

\* a tree of two sections or more, one node of which holds two articles
C13_Witness ==
    /\ pc = "tree"
    /\ \E k \in 1..Len(sections) :
          \/ Len(sections[k].articles) >= 2
          \/ \E j \in 1..Len(sections[k].sub_sections) :
                Len(sections[k].sub_sections[j].articles) >= 2
    /\ Len(sections) >= 2

(***************************************************************************)
(* C14: classification is idempotent: two iterations of the loop that      *)
(* classify links with the same path from the same context text resolve    *)
(* the same (top-level section, sub-section) pair and place their articles *)
(* in the same node, whatever was classified between them.                 *)
(***************************************************************************)
\* the article of url is in the node (top, sub) of sections_map; sub is None
\* for the articles held by the section itself
InNode(top, sub, url) ==
    /\ HasKey(sections_map, top)
    /\ LET sec == sections_map[KeyIndex(sections_map, top)]
       IN  IF sub = None
           THEN \E a \in Range(sec.articles) : a.url = url
           ELSE /\ HasKey(sec.sub_map, sub)
                /\ \E a \in Range(sec.sub_map[KeyIndex(sec.sub_map, sub)].articles) :
                      a.url = url

InSection(top, url) ==
    /\ HasKey(sections_map, top)
    /\ LET sec == sections_map[KeyIndex(sections_map, top)]
       IN  \/ \E a \in Range(sec.articles) : a.url = url
           \/ \E j \in 1..Len(sec.sub_map) :
                 \E a \in Range(sec.sub_map[j].articles) : a.url = url

C15_TextBeforePathTables ==
    \A i \in 1..Len(classified) :
        LET e == classified[i]
            named == { k \in 1..Len(TOP_LEVEL_ORDER) : TOP_LEVEL_ORDER[k] \in e.ctx }
        IN  named # {} =>
               /\ e.top = TOP_LEVEL_ORDER[Min(named)]
               /\ InSection(e.top, e.url)
               /\ \A k \in 1..Len(sections_map) :
                     sections_map[k].title # e.top => ~InSection(sections_map[k].title, e.url)

\* an article whose path the tables map to one section was placed in the
\* other section, which its text names
C15_Witness ==
    \E i \in 1..Len(classified) :
        LET e == classified[i]
        IN  /\ e.ctx \cap Range(TOP_LEVEL_ORDER) # {}
            /\ FallbackTop(e.parts) \notin { None, e.top }
            /\ InSection(e.top, e.url)

(***************************************************************************)
(* C16: a link whose page fails to load during classification is skipped:  *)
(* it produces no article.                                                 *)
(***************************************************************************)
C16_FailedLoadSkipsLink ==
    (goto_raised /\ classified # << >>) =>
        \A k \in 1..Len(sections_map) :
            ~InSection(sections_map[k].title, classified[Len(classified)].url)

(***************************************************************************)
(* C17: a link whose path is exactly a top-level section root              *)
(* (/design/human-interface-guidelines/<top-slug>) or exactly a Components *)
(* sub-section root (/design/human-interface-guidelines/components/<sub>)  *)
(* never becomes an article of the tree.                                   *)
(***************************************************************************)
IsRootPath(path) ==
    \/ Len(path) = 1 /\ path[1] \in DictKeys(slug_to_top)
    \/ Len(path) = 2 /\ path[1] = "components"

C17_RootsAreNotArticles ==
    pc = "tree" =>
        \A a \in Range(FlattenArticles(sections)) : ~IsRootPath(NormalizedPath(a.url))

(***************************************************************************)
(* C20: a navigation timeout on a section landing page or on a sub-section *)
(* landing page is caught: the links collected before it stay in           *)
(* discovered_links, and the crawl goes on with a later landing page or,   *)
(* after the last one, with the classification.                            *)
(***************************************************************************)
LaterLanding(pos, next) ==
    \/ pos[1] < next[1]
    \/ pos[1] = next[1] /\ pos[2] < next[2]

C20_LandingTimeoutIsCaught ==
    [][(pc = "landing" /\ goto_raised')
          => /\ discovered_links' = discovered_links
             /\ seen_hrefs' = seen_hrefs
             /\ LaterLanding(landing, landing')
             /\ pc' = IF landing' = LandingEnd THEN "crawled" ELSE "landing"]_vars

\* the first sub-section landing page timed out after links were collected,
\* and the second one is next
C20_Witness ==
    /\ goto_raised
    /\ pc = "landing"
    /\ landing = << 4, 2 >>
    /\ discovered_links # << >>

(***************************************************************************)
(* C18: a scroll pass of the sidebar crawl ends exactly when three         *)
(* consecutive steps have found no new link or when the step ceiling is    *)
(* reached: a pass that has ended did so after its third step in a row     *)
(* without a new link or at the ceiling, and a pass still running has not  *)
(* yet had three such steps in a row.                                      *)
(***************************************************************************)
C18_PassEndsAfterThreeQuietSteps ==
    /\ pc = "pass_end" => (quiet = StableLimit \/ steps = StepCeiling)
    /\ pc = "pass" => quiet < StableLimit

(***************************************************************************)
(* C19: each of the three passes of the sidebar crawl performs at most 400 *)
(* steps, whatever the navigator shows and wherever it scrolls, and there  *)
(* are no more than three passes.                                          *)
(***************************************************************************)
C19_PassesAreBounded ==
    /\ steps <= StepCeiling
    /\ pass_no <= Len(pass_directions)

\* the third pass ran into the ceiling, its last step having found no new
\* link away from the edge
C19_Witness ==
    /\ pc = "pass_end"
    /\ pass_no = Len(pass_directions)
    /\ steps = StepCeiling
    /\ stable_steps > StableLimit

(***************************************************************************)
(* C21: the per-section crawl visits the landing page of each of the six   *)
(* top-level sections and of each known Components sub-section, also when  *)
(* another landing page failed to load.                                    *)
(***************************************************************************)
C21_EveryLandingPageVisited ==
    pc = "crawled" => visited = LandingPages

(***************************************************************************)
(* C22: merge_pdfs gives the outline an entry for an article exactly when  *)
(* the article has an entry of generated_files_map whose file exists; an   *)
(* article whose render failed has none, and the merge still returns the   *)
(* merged path when another article was rendered.                          *)
(***************************************************************************)
HasOutlineEntry(items, url) ==
    \E k \in 1..Len(items) : items[k].kind = "article" /\ items[k].url = << url >>

LeftBehind == DOMAIN files \ { merged_path }

C23_FailedDeletionLeavesOnlyThatFile ==
    (pc = "merged" /\ merge_result # None) => Cardinality(LeftBehind) <= 1

(***************************************************************************)
(* C25: the PDF pipeline changes the tree only by setting page_num on      *)
(* articles: the section and sub-section titles, the article titles and    *)
(* URLs, their membership and their order stay as they were; and           *)
(* merge_pdfs leaves generated_files_map as it was.                        *)
(***************************************************************************)
WithoutPageNum(tree) ==
    LET bare(arts) == [ j \in 1..Len(arts) |-> Article(arts[j].title, arts[j].url) ]
    IN  [ i \in 1..Len(tree) |->
          [ title |-> tree[i].title,
            articles |-> bare(tree[i].articles),
            sub_sections |-> [ s \in 1..Len(tree[i].sub_sections) |->
                [ title |-> tree[i].sub_sections[s].title,
                  articles |-> bare(tree[i].sub_sections[s].articles) ] ] ] ]

C25_PipelineOnlyAddsPageNum ==
    [][ /\ WithoutPageNum(sections') = WithoutPageNum(sections)
        /\ (pc = "generated" => generated_files_map' = generated_files_map) ]_vars

C25_Witness ==
    /\ pc = "merged"
    /\ merge_result # None
    /\ \E a, b \in Range(FlattenArticles(sections)) :
          a.page_num # << >> /\ b.page_num = << >>

(***************************************************************************)
(* C27: every outline entry, of a section, a sub-section or an article,    *)
(* points at a page index below the number of pages of the merged          *)
(* document, also for a section or sub-section none of whose articles was  *)
(* rendered.                                                               *)
(***************************************************************************)
MergedPages == SumSeq([ k \in 1..Len(merged) |-> merged[k].pages ])

C27_OutlineWithinDocument ==
    (pc = "merged" /\ merge_result # None) =>
        \A k \in 1..Len(outline) : outline[k].page < MergedPages

(***************************************************************************)
(* C28: every section title of the returned tree is one of the six         *)
(* canonical top-level names, every section and every sub-section holds    *)
(* at least one article, and only Components has sub-sections; no section  *)
(* of sections_map is outside TOP_LEVEL_ORDER, so the loop that appends    *)
(* the unexpected sections adds nothing.                                   *)
(***************************************************************************)
C28_TreeIsCanonicalAndNonEmpty ==
    /\ \A k \in 1..Len(sections_map) :
          sections_map[k].title \in Range(TOP_LEVEL_ORDER)
    /\ pc = "tree" =>
          \A i \in 1..Len(sections) :
             /\ sections[i].title \in Range(TOP_LEVEL_ORDER)
             /\ SectionArticles(sections[i]) # << >>
             /\ \A s \in 1..Len(sections[i].sub_sections) :
                   sections[i].sub_sections[s].articles # << >>
             /\ sections[i].sub_sections # << >> => sections[i].title = "Components"

C28_Witness ==
    /\ pc = "tree"
    /\ Len(sections) >= 2
    /\ \E i \in 1..Len(sections) : sections[i].sub_sections # << >>
    /\ \E k \in 1..Len(classified) : classified[k].top = None

(***************************************************************************)
(* C26: nothing is retried.  In one run the classifier calls page.goto at  *)
(* most once for each distinct article URL and the renderer calls it at    *)
(* most once for each article of the tree, whether the load succeeds,      *)
(* fails or shows duplicate content.                                       *)
(***************************************************************************)
C26_NoNavigationRepeated ==
    \A i, j \in 1..Len(navigated) : i # j => navigated[i] # navigated[j]

C26_Witness ==
    /\ pc = "cover"
    /\ \E i, j \in 1..Len(discovered_links) :
          i # j /\ ClassificationUrl(discovered_links[i]) = ClassificationUrl(discovered_links[j])
    /\ goto_raised
    /\ failed_log # << >>
    /\ renders # << >>
    /\ \E k \in 1..Len(navigated) : navigated[k].stage = "classify"
    /\ \E k \in 1..Len(navigated) : navigated[k].stage = "render"

(***************************************************************************)
(* C24: SUMMARY.md lists the sections, the sub-sections and the articles   *)
(* in the order of the tree: it is the outline of the exported articles    *)
(* taken in the order in which the tree holds them.                        *)
(***************************************************************************)
ExportedInTreeOrder ==
    LET all == md_articles(sections)
        items == [ k \in 1..Len(all) |-> manifest_item(all[k].sec, all[k].sub, all[k].art) ]
    IN  SelectSeq(items, LAMBDA it : it \in Range(manifest))

C24_SummaryInTreeOrder ==
    pc = "md_done" => summary = << SummaryLines(ExportedInTreeOrder, None, None) >>

(***************************************************************************)
(* C29: export_markdown completes and writes manifest.json and SUMMARY.md  *)
(* for every tree, also when a section has both direct articles and        *)
(* sub-section articles exported in the run.                               *)
(***************************************************************************)
C29_ExportWritesManifestAndSummary ==
    pc \in {"md_done", "md_crashed"} => (manifest_json # << >> /\ summary # << >>)

(***************************************************************************)
(* C30: distinct articles are written to distinct files: no two entries    *)
(* of the manifest have the same file path.                                *)
(***************************************************************************)
C30_ManifestPathsDistinct ==
    \A i, j \in 1..Len(manifest) :
        i # j => manifest[i].relative_path # manifest[j].relative_path

====
